---- MODULE Spec2Model ----
(***************************************************************************)
(* Schedule / reservation manager of the medical-appointments API          *)
(* (src/apps/medical-appointments/app_old.py).                             *)
(*                                                                         *)
(* The authoritative store is the SQL table `schedules` (db), the mirror   *)
(* is the Firestore collection `appointments` (mirror).  Every request is  *)
(* served by its own thread with its own ORM session: a handler reads the  *)
(* row into its session (the snapshot), decides on the snapshot, and its   *)
(* commit issues UPDATE ... WHERE id = ? for the columns it changed.       *)
(* The session expires its objects on commit, so the to_dict() that        *)
(* follows a commit reloads the row from the table.                        *)
(***************************************************************************)
EXTENDS Integers, Sequences, FiniteSets, TLC

\* ------------------------------------------------------------------ bounds
MaxSlots == 2
MaxClock == 3
MaxCreates == 1

\* two request threads, the least that lets two handlers overlap
Threads == 1..2
Ids     == 1..MaxSlots

\* ------------------------------------------------- values of the program
None == "<None>"

\* a key the request body does not have (data.get gives None), among
\* values that are sequences
Absent == <<>>

OPEN_H  == 9
CLOSE_H == 19

Requesters == {"alice", "bob"}

\* request bodies: strings are sequences of one-character strings
D1   == <<"2","0","2","5","-","1","2","-","2","0">>
D2   == <<"2","0","2","5","-","2","-","3">>
D2p  == <<"2","0","2","5","-","0","2","-","0","3">>
DBad == <<"2","0","2","5","-","0","2","-","3","0">>
H900   == <<"9",":","0","0">>
H0900  == <<"0","9",":","0","0">>
H1900  == <<"1","9",":","0","0">>
H1901  == <<"1","9",":","0","1">>
H0859  == <<"0","8",":","5","9">>
HBad   == <<"9","h">>

ReqIds == 1..MaxSlots

\* ------------------------------------------------------- text conversions
Digits == <<"0","1","2","3","4","5","6","7","8","9">>

IsDigit(c) == \E i \in 1..10 : Digits[i] = c

DigitVal(c) == (CHOOSE i \in 1..10 : Digits[i] = c) - 1

RECURSIVE IntOf(_)
IntOf(s) == IF s = <<>> THEN 0
            ELSE 10 * IntOf(SubSeq(s, 1, Len(s) - 1)) + DigitVal(s[Len(s)])

AllDigits(s) == \A i \in 1..Len(s) : IsDigit(s[i])

\* the fields of s between the separators sep
RECURSIVE Split(_, _)
Split(s, sep) ==
    IF \A i \in 1..Len(s) : s[i] # sep THEN <<s>>
    ELSE LET k == CHOOSE i \in 1..Len(s) :
                      s[i] = sep /\ \A j \in 1..(i - 1) : s[j] # sep
         IN  <<SubSeq(s, 1, k - 1)>> \o Split(SubSeq(s, k + 1, Len(s)), sep)

\* one or two digits, as %H %M %m %d accept
Num12(s) == Len(s) \in {1, 2} /\ AllDigits(s)

IsLeap(y) == (y % 4 = 0 /\ y % 100 # 0) \/ y % 400 = 0

DaysIn(y, m) == IF m = 2 THEN (IF IsLeap(y) THEN 29 ELSE 28)
                ELSE IF m \in {4, 6, 9, 11} THEN 30 ELSE 31

\* datetime.strptime(date_str, '%Y-%m-%d').date(): <<>> stands for the
\* ValueError / TypeError, <<d>> for the date d = <<year, month, day>>
ParseDate(str) ==
    IF str = Absent THEN <<>>
    ELSE LET p == Split(str, "-") IN
         IF Len(p) # 3 THEN <<>>
         ELSE IF ~(Len(p[1]) = 4 /\ AllDigits(p[1]) /\ Num12(p[2]) /\ Num12(p[3]))
              THEN <<>>
         ELSE LET y == IntOf(p[1])
                  m == IntOf(p[2])
                  d == IntOf(p[3])
              IN  IF y >= 1 /\ m \in 1..12 /\ d >= 1 /\ d <= DaysIn(y, m)
                  THEN << <<y, m, d>> >> ELSE <<>>

\* datetime.strptime(hour_str, '%H:%M').time(): <<>> or <<t>>, t = <<h, m>>
ParseTime(str) ==
    IF str = Absent THEN <<>>
    ELSE LET p == Split(str, ":") IN
         IF Len(p) # 2 THEN <<>>
         ELSE IF ~(Num12(p[1]) /\ Num12(p[2])) THEN <<>>
         ELSE LET h == IntOf(p[1])
                  m == IntOf(p[2])
              IN  IF h <= 23 /\ m <= 59 THEN << <<h, m>> >> ELSE <<>>

\* order of datetime.time and datetime.date values
TupleLeq(a, b) ==
    \/ a = b
    \/ \E i \in 1..Len(a) : a[i] < b[i] /\ \A j \in 1..(i - 1) : a[j] = b[j]

\* mutant: the range is not checked
validate_hour_any(hour_str) ==
    LET t == ParseTime(hour_str) IN
    IF t = <<>> THEN [is_valid |-> FALSE, hour_obj |-> <<>>, error_key |-> "invalid_hour_format"]
    ELSE [is_valid |-> TRUE, hour_obj |-> t, error_key |-> None]

\* mutant: the closing hour itself is refused
validate_hour_open(hour_str) ==
    LET t == ParseTime(hour_str) IN
    IF t = <<>> THEN [is_valid |-> FALSE, hour_obj |-> <<>>, error_key |-> "invalid_hour_format"]
    ELSE IF ~(TupleLeq(<<OPEN_H, 0>>, t[1]) /\ TupleLeq(t[1], <<CLOSE_H, 0>>) /\ t[1] # <<CLOSE_H, 0>>)
         THEN [is_valid |-> FALSE, hour_obj |-> <<>>, error_key |-> "hour_out_of_range"]
         ELSE [is_valid |-> TRUE, hour_obj |-> t, error_key |-> None]

\* validate_hour: <<is_valid, hour_obj, error_key>>
validate_hour(hour_str) ==
    LET t == ParseTime(hour_str) IN
    IF t = <<>> THEN [is_valid |-> FALSE, hour_obj |-> <<>>, error_key |-> "invalid_hour_format"]
    ELSE IF ~(TupleLeq(<<OPEN_H, 0>>, t[1]) /\ TupleLeq(t[1], <<CLOSE_H, 0>>))
         THEN [is_valid |-> FALSE, hour_obj |-> <<>>, error_key |-> "hour_out_of_range"]
         ELSE [is_valid |-> TRUE, hour_obj |-> t, error_key |-> None]

\* zero-padded decimal of width w, as strftime writes it
RECURSIVE Pad(_, _)
Pad(n, w) == IF w = 0 THEN <<>>
             ELSE Pad(n \div 10, w - 1) \o <<Digits[(n % 10) + 1]>>

\* date.strftime('%Y-%m-%d') and time.strftime('%H:%M')
FormatDate(d) == Pad(d[1], 4) \o <<"-">> \o Pad(d[2], 2) \o <<"-">> \o Pad(d[3], 2)
FormatTime(t) == Pad(t[1], 2) \o <<":">> \o Pad(t[2], 2)

\* ------------------------------------------------------------------ state
VARIABLES
    db,             \* table `schedules`: id -> row, for the rows that exist
    mirror,         \* Firestore collection `appointments`: id -> document
    nextId,         \* next value of the autoincrement primary key
    clock,          \* datetime.utcnow(), as a logical clock
    gcp_available,  \* whether the Firestore client was set up at start
    sqlite,         \* whether the table is in SQLite (the fallback and the
                    \* tests' database) and not in MySQL
    pc,             \* per request thread: where its handler stands
    loc,            \* per request thread: the handler's local variables
    log,            \* history: per id, the mutations committed on it
    resp,           \* the response being handed to a caller, or NoResp
    budget          \* the clock value at which the run is cut off

vars == <<db, mirror, nextId, clock, gcp_available, sqlite, pc, loc, log, resp, budget>>

NoResp  == [op |-> None]
IdleLoc == [op |-> None]

\* mutant: the constructor is not given `shared`
ScheduleUnshared(id, date_obj, hour_obj, shared, now) ==
    [id |-> id, date |-> date_obj, hour |-> hour_obj, shared |-> FALSE,
     reserved |-> FALSE, reserved_by |-> None, reserved_note |-> None,
     created_at |-> now, updated_at |-> now]

\* Schedule(date=..., hour=..., shared=...) with the column defaults
Schedule(id, date_obj, hour_obj, shared, now) ==
    [id |-> id, date |-> date_obj, hour |-> hour_obj, shared |-> shared,
     reserved |-> FALSE, reserved_by |-> None, reserved_note |-> None,
     created_at |-> now, updated_at |-> now]

\* Schedule.to_dict
to_dict(s) ==
    [id |-> s.id, date |-> FormatDate(s.date), hour |-> FormatTime(s.hour),
     shared |-> s.shared, reserved |-> s.reserved,
     reserved_by |-> s.reserved_by, reserved_note |-> s.reserved_note,
     created_at |-> s.created_at, updated_at |-> s.updated_at]

\* mutant: the UPDATE sets every column but the key from the loaded row
FlushRow(row, snap, new) ==
    [f \in DOMAIN row |-> IF f = "id" THEN row[f] ELSE new[f]]

\* mutant: the commit writes the whole loaded row back
FlushAll(row, snap, new) == new

\* the UPDATE a commit flushes: the columns whose value differs from the
\* value loaded into the session are written, the others are left as the
\* table has them
Flush(row, snap, new) ==
    [f \in DOMAIN row |-> IF new[f] # snap[f] THEN new[f] ELSE row[f]]

Put(f, k, v) == [x \in (DOMAIN f) \cup {k} |-> IF x = k THEN v ELSE f[x]]

\* mutant: the row is not removed
DelNone(f, k) == f

Del(f, k) == [x \in (DOMAIN f) \ {k} |-> f[x]]

Reply(op, req, status, error, body) ==
    [op |-> op, req |-> req, status |-> status, error |-> error, body |-> body]

Idle(t) == resp = NoResp /\ pc[t] = "idle"
At(t, p) == resp = NoResp /\ pc[t] = p

\* the handler of thread t returns r
Return(t, r) ==
    /\ resp' = r
    /\ pc' = [pc EXCEPT ![t] = "idle"]
    /\ loc' = [loc EXCEPT ![t] = IdleLoc]

\* the handler of thread t goes on to step p with locals l
Goto(t, p, l) ==
    /\ pc' = [pc EXCEPT ![t] = p]
    /\ loc' = [loc EXCEPT ![t] = l]
    /\ UNCHANGED resp

Logged(id, op, by) == [log EXCEPT ![id] = Append(@, [op |-> op, by |-> by])]

\* Schedule.query.get_or_404(schedule_id)
Found(id) == id \in DOMAIN db

\* mutant: the lookup that fails is answered as a bad request
NotFoundAsBadRequest(op, req) == Reply(op, req, 400, "Not Found", <<>>)

NotFound(op, req) == Reply(op, req, 404, "Not Found", <<>>)

ServerError(t) ==
    Reply(loc[t].op, loc[t].req, 500, "Internal server error", <<>>)

\* the service after start: empty table, empty collection, no request
Started ==
    /\ db = <<>>
    /\ mirror = <<>>
    /\ nextId = 1
    /\ clock = 0
    /\ pc = [t \in Threads |-> "idle"]
    /\ loc = [t \in Threads |-> IdleLoc]
    /\ log = [i \in Ids |-> <<>>]
    /\ resp = NoResp

\* started without a Firestore client: the table is the only store
Init ==
    /\ Started
    /\ gcp_available = FALSE
    /\ sqlite = FALSE
    /\ budget = MaxClock

\* the caller takes the response
Deliver ==
    /\ resp # NoResp
    /\ resp' = NoResp
    /\ UNCHANGED <<db, mirror, nextId, clock, gcp_available, sqlite, pc, loc, log, budget>>

\* ------------------------------------------------------------- CreateSlot
\* mutant: the lookup of an existing slot finds nothing
ExistingNone(date_obj, hour_obj) == {}

\* Schedule.query.filter_by(date=date_obj, hour=hour_obj).first()
Existing(date_obj, hour_obj) ==
    {i \in DOMAIN db : db[i].date = date_obj /\ db[i].hour = hour_obj}

\* data.get('shared', False)
SharedOf(data) == IF data.shared = <<>> THEN FALSE ELSE data.shared[1]

\* mutant: the hour is validated before the date
create_schedule_api_hour_first(t, body) ==
    /\ Idle(t)
    /\ UNCHANGED <<db, mirror, nextId, clock, gcp_available, sqlite, log, budget>>
    /\ IF body = <<>>
       THEN Return(t, Reply("create", body, 400, "invalid_data", <<>>))
       ELSE LET data == body[1]
                d == ParseDate(data.date)
                v == validate_hour(data.hour)
            IN  IF ~v.is_valid
                THEN Return(t, Reply("create", body, 400, v.error_key, <<>>))
                ELSE IF d = <<>>
                THEN Return(t, Reply("create", body, 400, "invalid_date_format", <<>>))
                ELSE IF Existing(d[1], v.hour_obj[1]) # {}
                THEN Return(t, Reply("create", body, 409, "schedule_exists", <<>>))
                ELSE Goto(t, "create_commit",
                          [op |-> "create", req |-> body, id |-> 0,
                           new |-> Schedule(0, d[1], v.hour_obj[1], SharedOf(data), 0)])

\* create_schedule_api up to the uniqueness check
create_schedule_api(t, body) ==
    /\ Idle(t)
    /\ UNCHANGED <<db, mirror, nextId, clock, gcp_available, sqlite, log, budget>>
    /\ IF body = <<>>
       THEN Return(t, Reply("create", body, 400, "invalid_data", <<>>))
       ELSE LET data == body[1]
                d == ParseDate(data.date)
                v == validate_hour(data.hour)
            IN  IF d = <<>>
                THEN Return(t, Reply("create", body, 400, "invalid_date_format", <<>>))
                ELSE IF ~v.is_valid
                THEN Return(t, Reply("create", body, 400, v.error_key, <<>>))
                ELSE IF Existing(d[1], v.hour_obj[1]) # {}
                THEN Return(t, Reply("create", body, 409, "schedule_exists", <<>>))
                ELSE Goto(t, "create_commit",
                          [op |-> "create", req |-> body, id |-> 0,
                           new |-> Schedule(0, d[1], v.hour_obj[1], SharedOf(data), 0)])

\* the primary key the table gives a new row: MySQL's AUTO_INCREMENT
\* counter, or in SQLite (INTEGER PRIMARY KEY without AUTOINCREMENT) one
\* more than the largest id in the table
NewId ==
    IF ~sqlite THEN nextId
    ELSE IF DOMAIN db = {} THEN 1
    ELSE (CHOOSE i \in DOMAIN db : \A j \in DOMAIN db : j <= i) + 1

\* db.session.add(new_schedule); db.session.commit()
CreateCommit(t) ==
    /\ At(t, "create_commit")
    /\ clock < budget /\ NewId \in Ids
    /\ LET n == loc[t].new
           row == Schedule(NewId, n.date, n.hour, n.shared, clock + 1)
       IN  /\ db' = Put(db, NewId, row)
           /\ log' = Logged(NewId, "create", None)
           /\ Goto(t, "refresh", [loc[t] EXCEPT !.id = NewId])
    /\ nextId' = IF sqlite THEN nextId ELSE nextId + 1
    /\ clock' = clock + 1
    /\ UNCHANGED <<mirror, gcp_available, sqlite, budget>>

\* ------------------------------------------- after a commit: sync, respond
OkStatus(op) == IF op = "create" THEN 201 ELSE 200

OkReply(t, row) ==
    Reply(loc[t].op, loc[t].req, OkStatus(loc[t].op), None, <<to_dict(row)>>)

\* the first attribute access after the commit reloads the expired row
Refresh(t) ==
    /\ At(t, "refresh")
    /\ UNCHANGED <<db, mirror, nextId, clock, gcp_available, sqlite, log, budget>>
    /\ LET id == loc[t].id IN
       IF ~Found(id)
       THEN Return(t, ServerError(t))
       ELSE IF gcp_available
       THEN Goto(t, "sync", [op |-> loc[t].op, req |-> loc[t].req, id |-> id,
                             fresh |-> db[id]])
       ELSE Return(t, OkReply(t, db[id]))

\* the reload of the expired row raises (the store does not answer): the
\* to_dict() of the handler is inside its try, so rollback and 500, after
\* the commit
RefreshFails(t) ==
    /\ At(t, "refresh")
    /\ Return(t, ServerError(t))
    /\ UNCHANGED <<db, mirror, nextId, clock, gcp_available, sqlite, log, budget>>

\* Schedule.sync_to_firestore: document(str(self.id)).set(self.to_dict())
sync_to_firestore(t) ==
    /\ At(t, "sync")
    /\ mirror' = Put(mirror, loc[t].id, to_dict(loc[t].fresh))
    /\ Return(t, OkReply(t, loc[t].fresh))
    /\ UNCHANGED <<db, nextId, clock, gcp_available, sqlite, log, budget>>

\* mutant: the exception of the mirror write reaches the handler
SyncRaises(t) ==
    /\ At(t, "sync")
    /\ Return(t, ServerError(t))
    /\ UNCHANGED <<db, mirror, nextId, clock, gcp_available, sqlite, log, budget>>

\* Schedule.sync_to_firestore when the write raises: logged, not raised
SyncFails(t) ==
    /\ At(t, "sync")
    /\ Return(t, OkReply(t, loc[t].fresh))
    /\ UNCHANGED <<db, mirror, nextId, clock, gcp_available, sqlite, log, budget>>

\* db.session.commit() raises: rollback, 500
CommitFails(t) ==
    /\ resp = NoResp
    /\ pc[t] \in {"create_commit", "update_commit", "delete_commit",
                  "reserve_commit", "cancel_commit"}
    /\ Return(t, ServerError(t))
    /\ UNCHANGED <<db, mirror, nextId, clock, gcp_available, sqlite, log, budget>>

\* the store does not answer the commit or the mirror write: the call is
\* made without a timeout, so the handler waits in it
StoreSilent(t) ==
    /\ resp = NoResp
    /\ pc[t] \in {"create_commit", "update_commit", "delete_commit",
                  "reserve_commit", "cancel_commit", "sync"}
    /\ pc' = [pc EXCEPT ![t] = "waiting"]
    /\ UNCHANGED <<db, mirror, nextId, clock, gcp_available, sqlite, loc, log,
                   resp, budget>>

\* the UPDATE of a handler that changed its loaded row; an UPDATE that
\* matches no row raises StaleDataError
CommitUpdate(t, op, by) ==
    /\ UNCHANGED <<mirror, nextId, clock, gcp_available, sqlite, budget>>
    /\ LET id == loc[t].id IN
       IF ~Found(id)
       THEN /\ Return(t, ServerError(t))
            /\ UNCHANGED <<db, log>>
       ELSE /\ db' = [db EXCEPT ![id] = Flush(@, loc[t].snap, loc[t].new)]
            /\ log' = Logged(id, op, by)
            /\ Goto(t, "refresh", loc[t])

\* ---------------------------------------------------- GetSlot, ListSlots
GetReply(id) ==
    IF Found(id) THEN Reply("get", id, 200, None, <<to_dict(db[id])>>)
    ELSE NotFound("get", id)

\* api_schedule_detail, GET
api_schedule_detail(t, id) ==
    /\ Idle(t)
    /\ Return(t, GetReply(id))
    /\ UNCHANGED <<db, mirror, nextId, clock, gcp_available, sqlite, log, budget>>

\* mutant: shared=true is not applied
MatchingUnshared(f, date_obj) ==
    {i \in DOMAIN db :
        /\ (f.date # <<>> => db[i].date = date_obj)
        /\ (f.available => ~db[i].reserved)}

\* mutant: available=true is not applied
MatchingReserved(f, date_obj) ==
    {i \in DOMAIN db :
        /\ (f.date # <<>> => db[i].date = date_obj)
        /\ (f.shared => db[i].shared)}

\* the rows a filter of get_schedules_api keeps
Matching(f, date_obj) ==
    {i \in DOMAIN db :
        /\ (f.date # <<>> => db[i].date = date_obj)
        /\ (f.shared => db[i].shared)
        /\ (f.available => ~db[i].reserved)}

\* mutant: no order_by, the rows come in primary-key order
OrderedById(S) ==
    {s \in [1..Cardinality(S) -> S] : \A i, j \in DOMAIN s : i < j => s[i] < s[j]}

\* query.order_by(Schedule.date, Schedule.hour).all(): the orders of the
\* ids of S that are ascending in (date, hour)
Ordered(S) ==
    {s \in [1..Cardinality(S) -> S] :
        /\ \A i, j \in DOMAIN s : i # j => s[i] # s[j]
        /\ \A i, j \in DOMAIN s :
              i < j => TupleLeq(db[s[i]].date \o db[s[i]].hour,
                                db[s[j]].date \o db[s[j]].hour)}

get_schedules_api(t, f) ==
    /\ Idle(t)
    /\ UNCHANGED <<db, mirror, nextId, clock, gcp_available, sqlite, log, budget>>
    /\ LET d == IF f.date = <<>> THEN <<>> ELSE ParseDate(f.date[1]) IN
       IF f.date # <<>> /\ d = <<>>
       THEN Return(t, Reply("list", f, 400, "Invalid date format", <<>>))
       ELSE \E s \in Ordered(Matching(f, IF d = <<>> THEN <<>> ELSE d[1])) :
               Return(t, [op |-> "list", req |-> f, status |-> 200, error |-> None,
                          body |-> [i \in DOMAIN s |-> to_dict(db[s[i]])],
                          count |-> Len(s)])

\* -------------------------------------------------------------- UpdateSlot
\* api_schedule_detail, PUT, and update_schedule_api up to the commit
update_schedule_api(t, id, data) ==
    /\ Idle(t)
    /\ UNCHANGED <<db, mirror, nextId, gcp_available, sqlite, log, budget>>
    /\ IF ~Found(id)
       THEN /\ Return(t, NotFound("update", [id |-> id, data |-> data]))
            /\ UNCHANGED clock
       ELSE /\ clock < budget
            /\ clock' = clock + 1
            /\ Goto(t, "update_commit",
                    [op |-> "update", req |-> [id |-> id, data |-> data], id |-> id,
                     snap |-> db[id],
                     new |-> [db[id] EXCEPT
                                !.shared = IF data.shared = <<>> THEN @ ELSE data.shared[1],
                                !.updated_at = clock + 1]])

UpdateCommit(t) ==
    /\ At(t, "update_commit")
    /\ CommitUpdate(t, "update", None)

\* -------------------------------------------------------------- DeleteSlot
\* api_schedule_detail, DELETE
delete_schedule_api(t, id) ==
    /\ Idle(t)
    /\ UNCHANGED <<db, mirror, nextId, clock, gcp_available, sqlite, log, budget>>
    /\ IF ~Found(id)
       THEN Return(t, NotFound("delete", id))
       ELSE Goto(t, IF gcp_available THEN "delete_mirror" ELSE "delete_commit",
                 [op |-> "delete", req |-> id, id |-> id])

\* firestore_db.collection('appointments').document(str(schedule.id)).delete()
DeleteMirror(t) ==
    /\ At(t, "delete_mirror")
    /\ mirror' = Del(mirror, loc[t].id)
    /\ Goto(t, "delete_commit", loc[t])
    /\ UNCHANGED <<db, nextId, clock, gcp_available, sqlite, log, budget>>

\* the Firestore delete raises: logged, not raised
DeleteMirrorFails(t) ==
    /\ At(t, "delete_mirror")
    /\ Goto(t, "delete_commit", loc[t])
    /\ UNCHANGED <<db, mirror, nextId, clock, gcp_available, sqlite, log, budget>>

\* db.session.delete(schedule); db.session.commit(): a DELETE that matches
\* no row only warns
DeleteCommit(t) ==
    /\ At(t, "delete_commit")
    /\ db' = Del(db, loc[t].id)
    /\ log' = IF Found(loc[t].id) THEN Logged(loc[t].id, "delete", None) ELSE log
    /\ Return(t, Reply("delete", loc[t].req, 200, None, <<>>))
    /\ UNCHANGED <<mirror, nextId, clock, gcp_available, sqlite, budget>>

\* ----------------------------------------------------------------- Reserve
\* mutant: reserved_by is not checked
InvalidReserveIdOnly(data) == data.schedule_id = 0

\* if not schedule_id or not reserved_by
InvalidReserve(data) == data.schedule_id = 0 \/ data.reserved_by = ""

\* mutant: the check takes every slot for reserved
AlwaysReserved(schedule) == TRUE

\* mutant: the check is dropped
NeverReserved(schedule) == FALSE

\* if schedule.reserved
AlreadyReserved(schedule) == schedule.reserved

\* mutant: the note of the request is not stored
ReservedNoNote(schedule, data, now) ==
    [schedule EXCEPT !.reserved = TRUE,
                     !.reserved_by = data.reserved_by,
                     !.updated_at = now]

\* the assignments of reserve_appointment to the loaded row
Reserved(schedule, data, now) ==
    [schedule EXCEPT !.reserved = TRUE,
                     !.reserved_by = data.reserved_by,
                     !.reserved_note = data.reserved_note,
                     !.updated_at = now]

\* reserve_appointment up to the commit
reserve_appointment(t, data) ==
    /\ Idle(t)
    /\ UNCHANGED <<db, mirror, nextId, gcp_available, sqlite, log, budget>>
    /\ IF InvalidReserve(data)
       THEN /\ Return(t, Reply("reserve", data, 400, "invalid_data", <<>>))
            /\ UNCHANGED clock
       ELSE IF ~Found(data.schedule_id)
       THEN /\ Return(t, NotFound("reserve", data))
            /\ UNCHANGED clock
       ELSE IF AlreadyReserved(db[data.schedule_id])
       THEN /\ Return(t, Reply("reserve", data, 409, "Appointment already reserved", <<>>))
            /\ UNCHANGED clock
       ELSE /\ clock < budget
            /\ clock' = clock + 1
            /\ Goto(t, "reserve_commit",
                    [op |-> "reserve", req |-> data, id |-> data.schedule_id,
                     snap |-> db[data.schedule_id],
                     new |-> Reserved(db[data.schedule_id], data, clock + 1)])

ReserveCommit(t) ==
    /\ At(t, "reserve_commit")
    /\ CommitUpdate(t, "reserve", loc[t].req.reserved_by)

\* ------------------------------------------------------------------ Cancel
\* mutant: the check is dropped
NeverNotReserved(schedule) == FALSE

\* if not schedule.reserved
NotReserved(schedule) == ~schedule.reserved

\* mutant: reserved_by is not cleared
CancelledKeepsBy(schedule, now) ==
    [schedule EXCEPT !.reserved = FALSE,
                     !.reserved_note = None,
                     !.updated_at = now]

\* mutant: reserved_note is not cleared
CancelledKeepsNote(schedule, now) ==
    [schedule EXCEPT !.reserved = FALSE,
                     !.reserved_by = None,
                     !.updated_at = now]

\* mutant: the flag is not cleared
CancelledKeepsFlag(schedule, now) ==
    [schedule EXCEPT !.reserved_by = None,
                     !.reserved_note = None,
                     !.updated_at = now]

\* the assignments of cancel_appointment to the loaded row
Cancelled(schedule, now) ==
    [schedule EXCEPT !.reserved = FALSE,
                     !.reserved_by = None,
                     !.reserved_note = None,
                     !.updated_at = now]

\* cancel_appointment up to the commit
cancel_appointment(t, data) ==
    /\ Idle(t)
    /\ UNCHANGED <<db, mirror, nextId, gcp_available, sqlite, log, budget>>
    /\ IF ~Found(data.schedule_id)
       THEN /\ Return(t, NotFound("cancel", data))
            /\ UNCHANGED clock
       ELSE IF NotReserved(db[data.schedule_id])
       THEN /\ Return(t, Reply("cancel", data, 400, "Appointment is not reserved", <<>>))
            /\ UNCHANGED clock
       ELSE /\ clock < budget
            /\ clock' = clock + 1
            /\ Goto(t, "cancel_commit",
                    [op |-> "cancel", req |-> data, id |-> data.schedule_id,
                     snap |-> db[data.schedule_id],
                     new |-> Cancelled(db[data.schedule_id], clock + 1)])

CancelCommit(t) ==
    /\ At(t, "cancel_commit")
    /\ CommitUpdate(t, "cancel", None)

\* ---------------------------------------------------------------- requests
CreateBody(d, h, s) == <<[date |-> d, hour |-> h, shared |-> s]>>

ReserveBody(id, by, note) ==
    [schedule_id |-> id, reserved_by |-> by, reserved_note |-> note]

\* the requests of the concurrent specification
CreateBodies ==
    {CreateBody(D1, H900, <<TRUE>>), CreateBody(D2, H1900, <<>>)}

ReserveBodies ==
    {ReserveBody(i, "alice", "checkup") : i \in ReqIds} \cup
    {ReserveBody(i, "bob", "") : i \in ReqIds} \cup
    {ReserveBody(0, "alice", ""), ReserveBody(1, "", "")}

CancelBodies == {[schedule_id |-> i] : i \in ReqIds \cup {0}}

UpdateBodies == {[shared |-> <<>>], [shared |-> <<TRUE>>]}

ListFilters ==
    {[date |-> <<>>, shared |-> FALSE, available |-> TRUE]}

\* the requests of the sequential specification
SeqCreateBodies ==
    {<<>>} \cup
    {CreateBody(D1, H900, <<TRUE>>), CreateBody(D2, H1900, <<>>),
     CreateBody(D1, H0900, <<FALSE>>), CreateBody(D2p, H1900, <<TRUE>>),
     CreateBody(DBad, H900, <<>>), CreateBody(DBad, H0859, <<>>),
     CreateBody(D1, Absent, <<>>), CreateBody(D1, H0859, <<>>),
     CreateBody(D1, H1901, <<>>), CreateBody(D1, HBad, <<>>)}

SeqListFilters ==
    [date : {<<>>, <<D1>>, <<D2>>}, shared : BOOLEAN, available : BOOLEAN] \cup
    {[date |-> <<DBad>>, shared |-> FALSE, available |-> FALSE]}

\* the hours of the day a request may name, written HH:MM
HourStrings ==
    {FormatTime(<<h, m>>) : h \in 0..23, m \in {0, 1, 30, 59}} \cup {H900}

\* CreateSlot requests over every hour, with a real and an unreal date
HourBodies == {CreateBody(d, h, <<>>) : d \in {D1, DBad}, h \in HourStrings}

\* the ListSlots request without a filter
UnfilteredList == {[date |-> <<>>, shared |-> FALSE, available |-> FALSE]}

\* the requests of the specifications of concurrent handlers
RaceCreateBodies == {CreateBody(D1, H900, <<>>)}

RaceReserveBodies ==
    {ReserveBody(i, "alice", "checkup") : i \in ReqIds} \cup
    {ReserveBody(i, "bob", "") : i \in ReqIds}

MirrorUpdateBodies == {[shared |-> <<TRUE>>]}

MirrorReserveBodies == {ReserveBody(i, "alice", "") : i \in ReqIds}

MirrorCancelBodies == {[schedule_id |-> i] : i \in ReqIds}

\* CreateSlot requests for two dates and two hours each
OrderBodies == {CreateBody(d, h, <<>>) : d \in {D1, D2}, h \in {H900, H1900}}

\* --------------------------------------------------------- specifications
Requests(t) ==
    \/ \E b \in CreateBodies : create_schedule_api(t, b)
    \/ \E i \in ReqIds : api_schedule_detail(t, i)
    \/ \E f \in ListFilters : get_schedules_api(t, f)
    \/ \E i \in ReqIds, b \in UpdateBodies : update_schedule_api(t, i, b)
    \/ \E i \in ReqIds : delete_schedule_api(t, i)
    \/ \E b \in ReserveBodies : reserve_appointment(t, b)
    \/ \E b \in CancelBodies : cancel_appointment(t, b)

Commits(t) ==
    \/ CreateCommit(t)
    \/ UpdateCommit(t)
    \/ DeleteCommit(t)
    \/ ReserveCommit(t)
    \/ CancelCommit(t)
    \/ Refresh(t)

\* concurrent requests on the table, commits may fail
Next ==
    \/ Deliver
    \/ \E t \in Threads : Requests(t) \/ Commits(t) \/ CommitFails(t)

Spec == Init /\ [][Next]_vars

\* concurrent requests on the table, the store does not fail
NoFaultNext ==
    \/ Deliver
    \/ \E t \in Threads : Requests(t) \/ Commits(t)

NoFaultSpec == Init /\ [][NoFaultNext]_vars

\* one request at a time, with or without the mirror, no failure
SeqInit ==
    /\ Started
    /\ gcp_available \in BOOLEAN
    /\ sqlite = FALSE
    /\ budget = MaxClock + 1

SeqNext ==
    \/ Deliver
    \/ \E b \in SeqCreateBodies : create_schedule_api(1, b)
    \/ \E i \in ReqIds : api_schedule_detail(1, i)
    \/ \E f \in SeqListFilters : get_schedules_api(1, f)
    \/ \E i \in ReqIds, b \in UpdateBodies : update_schedule_api(1, i, b)
    \/ \E i \in ReqIds : delete_schedule_api(1, i)
    \/ \E b \in ReserveBodies : reserve_appointment(1, b)
    \/ \E b \in CancelBodies : cancel_appointment(1, b)
    \/ Commits(1)
    \/ sync_to_firestore(1)
    \/ DeleteMirror(1)

SeqSpec == SeqInit /\ [][SeqNext]_vars

\* CreateSlot alone, one request at a time, over every hour of the day
CreateInit ==
    /\ Started
    /\ gcp_available = FALSE
    /\ sqlite = FALSE
    /\ budget = MaxCreates

CreateNext ==
    \/ Deliver
    \/ \E b \in HourBodies : create_schedule_api(1, b)
    \/ CreateCommit(1)
    \/ Refresh(1)

CreateSpec == CreateInit /\ [][CreateNext]_vars

\* slots created and deleted in any order and listed, one request at a time
OrderNext ==
    \/ Deliver
    \/ \E b \in OrderBodies : create_schedule_api(1, b)
    \/ CreateCommit(1)
    \/ Refresh(1)
    \/ \E i \in ReqIds : delete_schedule_api(1, i)
    \/ DeleteCommit(1)
    \/ \E f \in SeqListFilters : get_schedules_api(1, f)

OrderSpec == Init /\ [][OrderNext]_vars

\* every operation, one request at a time, on either database, over a
\* longer run
DeleteInit ==
    /\ Started
    /\ gcp_available = FALSE
    /\ sqlite \in BOOLEAN
    /\ budget = MaxClock + 1

DeleteNext ==
    \/ Deliver
    \/ \E b \in CreateBodies : create_schedule_api(1, b)
    \/ \E i \in ReqIds : api_schedule_detail(1, i)
    \/ \E f \in UnfilteredList : get_schedules_api(1, f)
    \/ \E i \in ReqIds, b \in UpdateBodies : update_schedule_api(1, i, b)
    \/ \E i \in ReqIds : delete_schedule_api(1, i)
    \/ \E b \in ReserveBodies : reserve_appointment(1, b)
    \/ \E b \in CancelBodies : cancel_appointment(1, b)
    \/ Commits(1)

DeleteSpec == DeleteInit /\ [][DeleteNext]_vars

\* one request at a time with the mirror, where the mirror's writes and
\* the table's commits may fail
FaultInit ==
    /\ Started
    /\ gcp_available = TRUE
    /\ sqlite = FALSE
    /\ budget = MaxClock + 1

FaultNext ==
    \/ Deliver
    \/ \E b \in CreateBodies : create_schedule_api(1, b)
    \/ \E i \in ReqIds, b \in UpdateBodies : update_schedule_api(1, i, b)
    \/ \E i \in ReqIds : delete_schedule_api(1, i)
    \/ \E b \in ReserveBodies : reserve_appointment(1, b)
    \/ \E b \in CancelBodies : cancel_appointment(1, b)
    \/ Commits(1)
    \/ CommitFails(1)
    \/ RefreshFails(1)
    \/ sync_to_firestore(1)
    \/ SyncFails(1)
    \/ DeleteMirror(1)
    \/ DeleteMirrorFails(1)

FaultSpec == FaultInit /\ [][FaultNext]_vars

\* one request at a time with the mirror, where a store may fail or not
\* answer; every step that is possible is taken in the end
LiveNext ==
    \/ Deliver
    \/ \E b \in CreateBodies : create_schedule_api(1, b)
    \/ \E i \in ReqIds : api_schedule_detail(1, i)
    \/ \E f \in ListFilters : get_schedules_api(1, f)
    \/ \E i \in ReqIds, b \in UpdateBodies : update_schedule_api(1, i, b)
    \/ \E i \in ReqIds : delete_schedule_api(1, i)
    \/ \E b \in ReserveBodies : reserve_appointment(1, b)
    \/ \E b \in CancelBodies : cancel_appointment(1, b)
    \/ Commits(1)
    \/ CommitFails(1)
    \/ sync_to_firestore(1)
    \/ SyncFails(1)
    \/ DeleteMirror(1)
    \/ DeleteMirrorFails(1)
    \/ StoreSilent(1)

LiveSpec == FaultInit /\ [][LiveNext]_vars /\ WF_vars(LiveNext)

\* concurrent updates, reservations and cancellations of the slots, over a
\* longer run
RaceInit ==
    /\ Started
    /\ gcp_available = FALSE
    /\ sqlite = FALSE
    /\ budget = MaxClock + 1

RaceNext ==
    \/ Deliver
    \/ \E t \in Threads :
          \/ \E b \in RaceCreateBodies : create_schedule_api(t, b)
          \/ CreateCommit(t)
          \/ \E i \in ReqIds, b \in UpdateBodies : update_schedule_api(t, i, b)
          \/ UpdateCommit(t)
          \/ \E b \in RaceReserveBodies : reserve_appointment(t, b)
          \/ ReserveCommit(t)
          \/ \E b \in CancelBodies : cancel_appointment(t, b)
          \/ CancelCommit(t)
          \/ Refresh(t)

RaceSpec == RaceInit /\ [][RaceNext]_vars

\* concurrent handlers with the Firestore client available, where no
\* commit and no mirror write fails
MirrorInit ==
    /\ Started
    /\ gcp_available = TRUE
    /\ sqlite = FALSE
    /\ budget = MaxClock

MirrorNext ==
    \/ Deliver
    \/ \E t \in Threads :
          \/ \E b \in RaceCreateBodies : create_schedule_api(t, b)
          \/ CreateCommit(t)
          \/ \E i \in ReqIds, b \in MirrorUpdateBodies : update_schedule_api(t, i, b)
          \/ UpdateCommit(t)
          \/ \E i \in ReqIds : delete_schedule_api(t, i)
          \/ DeleteMirror(t)
          \/ DeleteCommit(t)
          \/ \E b \in MirrorReserveBodies : reserve_appointment(t, b)
          \/ ReserveCommit(t)
          \/ \E b \in MirrorCancelBodies : cancel_appointment(t, b)
          \/ CancelCommit(t)
          \/ Refresh(t)
          \/ sync_to_firestore(t)

MirrorSpec == MirrorInit /\ [][MirrorNext]_vars

\* ------------------------------------------------------ response language
\* Accept-Language values of a request; Absent when the header is not sent
Headers == {Absent, <<"e","n">>, <<"e","s">>, <<"E","S">>, <<"E","n">>, <<"f","r">>}

\* str.lower() on the letters of these headers
LowerChar(c) ==
    IF c = "E" THEN "e" ELSE IF c = "S" THEN "s" ELSE IF c = "N" THEN "n" ELSE c

Lower(str) == [i \in DOMAIN str |-> LowerChar(str[i])]

\* get_lang: request.headers.get('Accept-Language', 'en'), lowered, and
\* 'en' unless it is 'es' or 'en'
get_lang(header) ==
    LET lang == IF header = Absent THEN <<"e","n">> ELSE header IN
    IF Lower(lang) = <<"e","s">> THEN "es" ELSE "en"

\* the message tables of get_message
messages ==
    [en |-> [invalid_date_format   |-> "Invalid date format. Use YYYY-MM-DD.",
             invalid_hour_format   |-> "Invalid hour format. Use HH:MM.",
             hour_out_of_range     |-> "Hour must be between 09:00 and 19:00.",
             schedule_exists       |-> "A schedule already exists for this date and time.",
             schedule_not_found    |-> "Schedule not found.",
             schedule_created      |-> "Schedule created successfully.",
             schedule_updated      |-> "Schedule updated successfully.",
             schedule_deleted      |-> "Schedule deleted successfully.",
             appointment_reserved  |-> "Appointment reserved successfully.",
             appointment_cancelled |-> "Appointment cancelled successfully.",
             invalid_data          |-> "Invalid data provided."],
     es |-> [invalid_date_format   |-> "Formato de fecha inválido. Use AAAA-MM-DD.",
             invalid_hour_format   |-> "Formato de hora inválido. Use HH:MM.",
             hour_out_of_range     |-> "La hora debe estar entre 09:00 y 19:00.",
             schedule_exists       |-> "Ya existe un horario para esta fecha y hora.",
             schedule_not_found    |-> "Horario no encontrado.",
             schedule_created      |-> "Horario creado exitosamente.",
             schedule_updated      |-> "Horario actualizado exitosamente.",
             schedule_deleted      |-> "Horario eliminado exitosamente.",
             appointment_reserved  |-> "Cita reservada exitosamente.",
             appointment_cancelled |-> "Cita cancelada exitosamente.",
             invalid_data          |-> "Datos inválidos proporcionados."]]

\* the lookup raised
KeyError == "<KeyError>"

\* mutant: only the English table exists and the lookup is strict
get_message_strict(key, lang) ==
    IF lang = "en" /\ key \in DOMAIN messages.en THEN messages.en[key]
    ELSE KeyError

\* messages.get(lang, messages['en']).get(key, key)
get_message(key, lang) ==
    LET table == IF lang \in DOMAIN messages THEN messages[lang] ELSE messages.en
    IN  IF key \in DOMAIN table THEN table[key] ELSE key

\* the key a handler passes to get_message for the reply r, None when the
\* reply carries a literal text or no text
MessageKey(r) ==
    IF r.error # None
    THEN IF r.error \in DOMAIN messages.en THEN r.error ELSE None
    ELSE IF r.op = "create" THEN "schedule_created"
    ELSE IF r.op = "update" THEN "schedule_updated"
    ELSE IF r.op = "delete" THEN "schedule_deleted"
    ELSE IF r.op = "reserve" THEN "appointment_reserved"
    ELSE IF r.op = "cancel" THEN "appointment_cancelled"
    ELSE None

\* the HTTP response of the reply r to a request sent with this header: the
\* handler takes lang = get_lang() and uses it for the message only; an
\* exception while the response is built is answered 500
Rendered(r, header) ==
    LET lang == get_lang(header)
        key  == MessageKey(r)
        text == IF key # None THEN get_message(key, lang) ELSE r.error
    IN  IF text = KeyError
        THEN [status |-> 500, kind |-> "Internal server error",
              text |-> "Internal server error", body |-> <<>>]
        ELSE [status |-> r.status,
              kind |-> IF r.error = None THEN "ok" ELSE r.error,
              text |-> text, body |-> r.body]

\* ------------------------------------------------------------- properties
Ops(L) == [i \in DOMAIN L |-> L[i].op]

IsMove(e) == e.op \in {"reserve", "cancel", "delete"}

\* the reservations, cancellations and deletion committed on a slot
Moves(id) == Ops(SelectSeq(log[id], IsMove))

\* the Reserve commits on a slot since its last Cancel commit
RECURSIVE Winners(_)
Winners(m) == IF m = <<>> \/ m[Len(m)] # "reserve" THEN 0
              ELSE 1 + Winners(SubSeq(m, 1, Len(m) - 1))

EndsWith(m, tail) ==
    Len(m) >= Len(tail) /\ SubSeq(m, Len(m) - Len(tail) + 1, Len(m)) = tail

NonEmpty(by) == by # None /\ by # ""

\* the step is a request answered at once by the handler of an idle thread
Immediate(op) == resp' # NoResp /\ resp'.op = op /\ pc' = pc

\* C1: between two successful Cancels at most one Reserve succeeds on a
\* slot, under every interleaving of the handlers' reads and commits.
C1_SingleWinner == \A id \in Ids : Winners(Moves(id)) <= 1

\* C2: at most one slot exists per (date, hour), also when CreateSlot calls
\* with the same (date, hour) run concurrently.
C2_UniqueDateHour ==
    \A i, j \in DOMAIN db :
        (db[i].date = db[j].date /\ db[i].hour = db[j].hour) => i = j

\* a Conflict is handed out only after some Reserve has committed on the slot
C3_ConflictHasWinner ==
    (resp.op = "reserve" /\ resp.status = 409) =>
        \E k \in DOMAIN log[resp.req.schedule_id] :
            log[resp.req.schedule_id][k].op = "reserve"

\* a Reserve handler that went past its check on a slot that still exists
\* answers with success
C3_WinnerAnswered ==
    \A t \in Threads :
        (/\ pc[t] \in {"reserve_commit", "refresh"}
         /\ loc[t].op = "reserve"
         /\ pc'[t] = "idle"
         /\ Found(loc[t].id))
        => resp'.status = 200

\* C3: when the store does not fail, the Reserve calls that race on an
\* existing available slot never all lose: a caller is told Conflict only
\* when another Reserve has committed, and the Reserve that committed is
\* answered with success.
C3_NeverZero == [](C3_ConflictHasWinner) /\ [][C3_WinnerAnswered]_vars

C3_Witness ==
    /\ resp.op = "reserve" /\ resp.status = 409
    /\ \E t \in Threads :
          pc[t] = "refresh" /\ loc[t].op = "reserve" /\ loc[t].id = resp.req.schedule_id

\* C4: in every state of the table, reserved_by of a slot is non-empty
\* exactly when the slot is reserved.
C4_ReservedByIffReserved ==
    \A id \in DOMAIN db : NonEmpty(db[id].reserved_by) <=> db[id].reserved = TRUE

C4_Witness ==
    \E id \in DOMAIN db :
        /\ db[id].reserved
        /\ EndsWith(Moves(id), <<"reserve", "reserve">>)

\* C5: a Reserve that finds the slot reserved answers 409 and changes
\* nothing, whoever asks; no Reserve goes on to its commit from a reserved
\* slot.
C5_ReserveOnReserved ==
    [][/\ \A t \in Threads :
             (pc[t] = "idle" /\ pc'[t] = "reserve_commit")
                 => ~db[loc'[t].id].reserved
       /\ (/\ Immediate("reserve")
           /\ ~(resp'.req.schedule_id = 0 \/ resp'.req.reserved_by = "")
           /\ resp'.req.schedule_id \in DOMAIN db
           /\ db[resp'.req.schedule_id].reserved)
          => /\ resp'.status = 409
             /\ db' = db /\ mirror' = mirror /\ log' = log]_vars

C5_Witness ==
    /\ resp.op = "reserve" /\ resp.status = 409
    /\ resp.req.schedule_id \in DOMAIN db
    /\ db[resp.req.schedule_id].reserved_by # resp.req.reserved_by

\* C6: a Cancel that finds the slot not reserved answers 400 and changes
\* nothing; no Cancel goes on to its commit from an available slot.
C6_CancelOnAvailable ==
    [][/\ \A t \in Threads :
             (pc[t] = "idle" /\ pc'[t] = "cancel_commit")
                 => db[loc'[t].id].reserved
       /\ (/\ Immediate("cancel")
           /\ resp'.req.schedule_id \in DOMAIN db
           /\ ~db[resp'.req.schedule_id].reserved)
          => /\ resp'.status = 400
             /\ db' = db /\ mirror' = mirror /\ log' = log]_vars

C6_Witness ==
    /\ resp.op = "cancel" /\ resp.status = 400
    /\ EndsWith(Moves(resp.req.schedule_id), <<"reserve", "cancel">>)

\* the moves committed on the slot of the answered request before it
MovesBefore ==
    IF resp.req.schedule_id \notin Ids THEN <<>>
    ELSE LET m == Moves(resp.req.schedule_id) IN
         IF resp.status = 200 THEN SubSeq(m, 1, Len(m) - 1) ELSE m

\* C7: in a sequential run, a Cancel that follows a Reserve succeeds and
\* leaves the slot available, and a Reserve that follows a Reserve and a
\* Cancel succeeds for any requester.
C7_ReserveCancelReserve ==
    /\ (resp.op = "cancel" /\ EndsWith(MovesBefore, <<"reserve">>))
        => /\ resp.status = 200
           /\ ~db[resp.req.schedule_id].reserved
    /\ (/\ resp.op = "reserve"
        /\ resp.req.schedule_id # 0 /\ resp.req.reserved_by # ""
        /\ EndsWith(MovesBefore, <<"reserve", "cancel">>))
        => /\ resp.status = 200
           /\ db[resp.req.schedule_id].reserved
           /\ db[resp.req.schedule_id].reserved_by = resp.req.reserved_by

C7_Witness ==
    /\ resp.op = "reserve" /\ resp.status = 200
    /\ Moves(resp.req.schedule_id) = <<"reserve", "cancel", "reserve">>
    /\ log[resp.req.schedule_id][2].by # resp.req.reserved_by

\* C8: the reserved flag of a slot goes from false to true only by the
\* commit of a Reserve and from true to false only by the commit of a
\* Cancel; no other step changes it, and a new slot starts available.
C8_FlagTransitions ==
    [][/\ \A id \in (DOMAIN db) \cap (DOMAIN db') :
             db'[id].reserved # db[id].reserved =>
                 \/ /\ ~db[id].reserved /\ db'[id].reserved = TRUE
                    /\ Len(log'[id]) = Len(log[id]) + 1
                    /\ log'[id][Len(log'[id])].op = "reserve"
                 \/ /\ db[id].reserved /\ db'[id].reserved = FALSE
                    /\ Len(log'[id]) = Len(log[id]) + 1
                    /\ log'[id][Len(log'[id])].op = "cancel"
       /\ \A id \in (DOMAIN db') \ (DOMAIN db) : db'[id].reserved = FALSE]_vars

C8_Witness ==
    \E id \in DOMAIN db :
        /\ db[id].reserved
        /\ Len(log[id]) >= 3
        /\ log[id][Len(log[id])].op = "update"

\* C9: a CreateSlot that finds a slot at its (date, hour) answers 409 and
\* adds nothing, whatever the shared value and the reservation of that slot;
\* no CreateSlot goes on to its insert when such a slot exists.
C9_DuplicateRejected ==
    [][/\ \A t \in Threads :
             (pc[t] = "idle" /\ pc'[t] = "create_commit") =>
                 ~\E i \in DOMAIN db :
                     /\ db[i].date = loc'[t].new.date
                     /\ db[i].hour = loc'[t].new.hour
       /\ (/\ Immediate("create")
           /\ resp'.req # <<>>
           /\ \E i \in DOMAIN db :
                 /\ <<db[i].date>> = ParseDate(resp'.req[1].date)
                 /\ <<db[i].hour>> = ParseTime(resp'.req[1].hour))
          => /\ resp'.status = 409
             /\ db' = db /\ nextId' = nextId /\ mirror' = mirror]_vars

C9_Witness ==
    /\ resp.op = "create" /\ resp.status = 409
    /\ \E i \in DOMAIN db :
          /\ <<db[i].hour>> = ParseTime(resp.req[1].hour)
          /\ <<db[i].date>> = ParseDate(resp.req[1].date)
          /\ FormatTime(db[i].hour) # resp.req[1].hour
          /\ db[i].reserved
          /\ db[i].shared # (resp.req[1].shared = <<TRUE>>)

\* the time t = <<h, m>> is from 09:00 to 19:00, in minutes of the day
InOpeningHours(t) == 60 * t[1] + t[2] >= 540 /\ 60 * t[1] + t[2] <= 1140

\* the request names a real date and an hour from 09:00 to 19:00
ValidSlotRequest(body) ==
    /\ body # <<>>
    /\ ParseDate(body[1].date) # <<>>
    /\ ParseTime(body[1].hour) # <<>>
    /\ InOpeningHours(ParseTime(body[1].hour)[1])

\* C10: in a sequential run, a CreateSlot with a valid date and an hour in
\* range fails only when a slot exists at its (date, hour); when it answers
\* 201, a GetSlot on the returned id gives the same date, hour and shared
\* value, reserved false and no reserved_by.
C10_CreateThenGet ==
    resp.op = "create" =>
        /\ ValidSlotRequest(resp.req) =>
              \/ resp.status = 201
              \/ /\ resp.status = 409
                 /\ \E i \in DOMAIN db :
                       /\ <<db[i].date>> = ParseDate(resp.req[1].date)
                       /\ <<db[i].hour>> = ParseTime(resp.req[1].hour)
        /\ resp.status = 201 =>
              LET g == GetReply(resp.body[1].id) IN
              /\ ValidSlotRequest(resp.req)
              /\ g.status = 200
              /\ g.body[1].id = resp.body[1].id
              /\ ParseDate(g.body[1].date) = ParseDate(resp.req[1].date)
              /\ ParseTime(g.body[1].hour) = ParseTime(resp.req[1].hour)
              /\ g.body[1].shared = (resp.req[1].shared = <<TRUE>>)
              /\ g.body[1].reserved = FALSE
              /\ g.body[1].reserved_by = None

C10_Witness ==
    /\ resp.op = "create" /\ resp.status = 201
    /\ resp.req[1].hour = H900
    /\ resp.req[1].shared = <<TRUE>>
    /\ GetReply(resp.body[1].id).body[1].hour = H0900

\* the request has a well-formed hour outside 09:00 .. 19:00
OutOfRange(body) ==
    /\ body # <<>>
    /\ ParseTime(body[1].hour) # <<>>
    /\ ~InOpeningHours(ParseTime(body[1].hour)[1])

\* a CreateSlot with a well-formed hour out of range is answered
\* hour_out_of_range, whatever its date
C11_AlwaysHourOutOfRange ==
    (resp.op = "create" /\ OutOfRange(resp.req)) =>
        resp.status = 400 /\ resp.error = "hour_out_of_range"

\* the answer to a CreateSlot whose date is real and whose hour is well
\* formed: hour_out_of_range outside 09:00 .. 19:00, and inside it (09:00
\* and 19:00 included) created, or refused for the slot that is there
C11_AnswerByHour ==
    (/\ resp.op = "create" /\ resp.req # <<>>
     /\ ParseDate(resp.req[1].date) # <<>>
     /\ ParseTime(resp.req[1].hour) # <<>>)
    => IF OutOfRange(resp.req)
       THEN resp.status = 400 /\ resp.error = "hour_out_of_range"
       ELSE \/ resp.status = 201
            \/ /\ resp.status = 409
               /\ \E i \in DOMAIN db :
                     /\ <<db[i].date>> = ParseDate(resp.req[1].date)
                     /\ <<db[i].hour>> = ParseTime(resp.req[1].hour)

\* a CreateSlot with an hour out of range adds nothing and never goes on
\* to its insert
C11_NothingCreated ==
    /\ (Immediate("create") /\ OutOfRange(resp'.req))
          => db' = db /\ nextId' = nextId /\ mirror' = mirror
    /\ \A t \in Threads :
          (pc[t] = "idle" /\ pc'[t] = "create_commit") => ~OutOfRange(loc'[t].req)

\* C11: a CreateSlot with a real date and a well-formed hour outside
\* 09:00 .. 19:00 is answered 400 hour_out_of_range and creates no slot;
\* 09:00 and 19:00 are accepted.
C11_HourOutOfRange == [](C11_AnswerByHour) /\ [][C11_NothingCreated]_vars

C11_Witness ==
    /\ resp.op = "create" /\ resp.error = "hour_out_of_range"
    /\ resp.req[1].hour = H1901
    /\ \E i \in DOMAIN db : db[i].hour = <<CLOSE_H, 0>>

\* C12: in every state of the table the hour of every slot is from 09:00
\* to 19:00 inclusive, whatever was requested and whatever operation ran.
C12_HourInRange == \A i \in DOMAIN db : InOpeningHours(db[i].hour)

C12_Witness ==
    /\ \E i \in DOMAIN db :
          /\ db[i].hour = <<CLOSE_H, 0>>
          /\ Len(log[i]) >= 2 /\ log[i][Len(log[i])].op = "update"
    /\ resp.op = "create" /\ resp.error = "hour_out_of_range"

\* the ids of the slots a ListSlots response holds
ListedIds == {resp.body[k].id : k \in DOMAIN resp.body}

\* the response is a ListSlots with available=true and no other filter
ListsAvailable ==
    /\ resp.op = "list" /\ resp.status = 200
    /\ resp.req.available /\ ~resp.req.shared /\ resp.req.date = <<>>

\* the existing slots whose last reservation move, if any, is a Cancel
NotHeld == {i \in DOMAIN db : Moves(i) = <<>> \/ EndsWith(Moves(i), <<"cancel">>)}

\* C13: in a sequential run, ListSlots with availableOnly returns exactly
\* the existing slots whose reserved flag is false, which are the slots
\* never reserved or cancelled since; its count is their number (1 after a
\* creation, 0 after a Reserve, 1 again after a Cancel for a single slot).
C13_AvailableOnly ==
    ListsAvailable =>
        /\ ListedIds = {i \in DOMAIN db : db[i].reserved = FALSE}
        /\ ListedIds = NotHeld
        /\ resp.count = Cardinality(NotHeld)
        /\ Len(resp.body) = resp.count

C13_Witness ==
    /\ ListsAvailable /\ resp.count = 1
    /\ \E i \in DOMAIN db : Moves(i) = <<"reserve", "cancel">>

\* C14: in a sequential run, a ListSlots answered 200 holds exactly the
\* existing slots that satisfy every filter given (the date, shared true,
\* reserved false), each once and as the table has it, and its count is
\* the number of slots it holds.
C14_FiltersConjoined ==
    (resp.op = "list" /\ resp.status = 200) =>
        /\ ListedIds =
              {i \in DOMAIN db :
                 /\ resp.req.date # <<>> => <<db[i].date>> = ParseDate(resp.req.date[1])
                 /\ resp.req.shared => db[i].shared = TRUE
                 /\ resp.req.available => db[i].reserved = FALSE}
        /\ \A k \in DOMAIN resp.body : resp.body[k] = to_dict(db[resp.body[k].id])
        /\ resp.count = Len(resp.body)
        /\ resp.count = Cardinality(ListedIds)

C14_Witness ==
    /\ resp.op = "list" /\ resp.status = 200
    /\ resp.req.date = <<D2>> /\ resp.req.shared /\ resp.req.available
    /\ resp.count = 1
    /\ \E i \in DOMAIN db : db[i].date # db[resp.body[1].id].date /\ db[i].shared
    /\ \E i \in DOMAIN db : db[i].reserved

\* a date and a time of a response as numbers that order them
DateNum(str) == LET d == ParseDate(str)[1] IN 10000 * d[1] + 100 * d[2] + d[3]
TimeNum(str) == LET t == ParseTime(str)[1] IN 60 * t[1] + t[2]

\* C15: the slots of a ListSlots response are in ascending (date, hour)
\* order: of two consecutive slots the first has the earlier date, or the
\* same date and an hour that is not later, whatever the order of creation.
C15_OrderedByDateHour ==
    (resp.op = "list" /\ resp.status = 200) =>
        \A k \in 1..(Len(resp.body) - 1) :
            LET a == resp.body[k]
                b == resp.body[k + 1]
            IN  \/ DateNum(a.date) < DateNum(b.date)
                \/ /\ DateNum(a.date) = DateNum(b.date)
                   /\ TimeNum(a.hour) <= TimeNum(b.hour)

C15_Witness ==
    /\ resp.op = "list" /\ resp.status = 200
    /\ Len(resp.body) >= 2
    /\ resp.body[1].id > resp.body[2].id
    /\ resp.body[1].date = resp.body[2].date

\* the step is taken by the handler of thread t
StepOf(t) == pc'[t] # pc[t]

\* every slot but id is as it was, and no slot is added or removed
OthersUnchanged(id) ==
    /\ DOMAIN db' = DOMAIN db
    /\ \A j \in (DOMAIN db) \ {id} : db'[j] = db[j]

\* C16: the commit of a Reserve on a slot that is available leaves the
\* slot reserved, with the reserved_by and the reserved_note of the
\* request; the commit of a Reserve leaves every other slot as it was, and
\* the other steps of a Reserve change no slot.
C16_ReserveEffect ==
    [][\A t \in Threads :
          /\ (pc[t] = "reserve_commit" /\ pc'[t] = "refresh") =>
                /\ ~db[loc[t].id].reserved =>
                      /\ db'[loc[t].id].reserved = TRUE
                      /\ db'[loc[t].id].reserved_by = loc[t].req.reserved_by
                      /\ db'[loc[t].id].reserved_note = loc[t].req.reserved_note
                /\ OthersUnchanged(loc[t].id)
          /\ (/\ StepOf(t)
              /\ loc[t].op = "reserve" \/ loc'[t].op = "reserve"
              /\ ~(pc[t] = "reserve_commit" /\ pc'[t] = "refresh")) => db' = db]_vars

C16_Witness ==
    \E t \in Threads :
        /\ pc[t] = "refresh" /\ loc[t].op = "reserve"
        /\ db[loc[t].id].reserved_by = "alice"
        /\ db[loc[t].id].reserved_note = "checkup"
        /\ Moves(loc[t].id) = <<"reserve">>
        /\ \E j \in DOMAIN db : j # loc[t].id

\* C17: the commit of a Cancel on a slot that is reserved leaves the slot
\* not reserved, with reserved_by and reserved_note cleared; the commit of
\* a Cancel keeps the id, date, hour and shared value of its slot and
\* leaves every other slot as it was, and the other steps of a Cancel
\* change no slot.
C17_CancelEffect ==
    [][\A t \in Threads :
          /\ (pc[t] = "cancel_commit" /\ pc'[t] = "refresh") =>
                /\ db[loc[t].id].reserved =>
                      /\ db'[loc[t].id].reserved = FALSE
                      /\ db'[loc[t].id].reserved_by = None
                      /\ db'[loc[t].id].reserved_note = None
                /\ \A f \in {"id", "date", "hour", "shared"} :
                      db'[loc[t].id][f] = db[loc[t].id][f]
                /\ OthersUnchanged(loc[t].id)
          /\ (/\ StepOf(t)
              /\ loc[t].op = "cancel" \/ loc'[t].op = "cancel"
              /\ ~(pc[t] = "cancel_commit" /\ pc'[t] = "refresh")) => db' = db]_vars

C17_Witness ==
    \E t \in Threads :
        /\ pc[t] = "refresh" /\ loc[t].op = "cancel"
        /\ loc[t].snap.reserved_note = "checkup"
        /\ db[loc[t].id].reserved_note = None
        /\ db[loc[t].id].shared # loc[t].snap.shared

\* C18: the commit of an UpdateSlot changes at most shared and updated_at
\* of its slot: id, date, hour, reserved, reserved_by and reserved_note stay
\* as the table has them, also when a Reserve or a Cancel committed on the
\* slot after the update read it; every other slot is as it was, and the
\* other steps of an UpdateSlot change no slot.
C18_UpdateFrame ==
    [][\A t \in Threads :
          /\ (pc[t] = "update_commit" /\ pc'[t] = "refresh") =>
                /\ \A f \in {"id", "date", "hour", "reserved", "reserved_by",
                              "reserved_note", "created_at"} :
                      db'[loc[t].id][f] = db[loc[t].id][f]
                /\ OthersUnchanged(loc[t].id)
          /\ (/\ StepOf(t)
              /\ loc[t].op = "update" \/ loc'[t].op = "update"
              /\ ~(pc[t] = "update_commit" /\ pc'[t] = "refresh")) => db' = db]_vars

\* an update that changed shared has committed after a Cancel that
\* committed after the update read the slot
C18_Witness ==
    \E t \in Threads :
        /\ pc[t] = "refresh" /\ loc[t].op = "update"
        /\ loc[t].snap.reserved = TRUE /\ db[loc[t].id].reserved = FALSE
        /\ loc[t].snap.shared = FALSE /\ db[loc[t].id].shared = TRUE
        /\ log[loc[t].id][Len(log[loc[t].id])].op = "update"

\* the same with a Reserve in place of the Cancel
C18_ReserveBetween ==
    \E t \in Threads :
        /\ pc[t] = "refresh" /\ loc[t].op = "update"
        /\ loc[t].snap.reserved = FALSE /\ db[loc[t].id].reserved = TRUE
        /\ log[loc[t].id][Len(log[loc[t].id])].op = "update"

\* the id a response is about, 0 when it is about none
TargetOf(r) ==
    CASE r.op \in {"get", "delete"} -> r.req
      [] r.op = "update" -> r.req.id
      [] r.op = "reserve" /\ r.req.reserved_by # "" -> r.req.schedule_id
      [] r.op = "cancel" -> r.req.schedule_id
      [] OTHER -> 0

TargetId == TargetOf(resp)

Last(s) == s[Len(s)]

\* a DeleteSlot has succeeded on the id at some time
WasDeleted(id) == \E k \in DOMAIN log[id] : log[id][k].op = "delete"

\* the last mutation of the id is its deletion
IsDeleted(id) == log[id] # <<>> /\ Last(log[id]).op = "delete"

\* C19: in a sequential run, once a DeleteSlot has succeeded on an id,
\* every later GetSlot, UpdateSlot, Reserve, Cancel and DeleteSlot on the id
\* is answered 404 and no ListSlots shows the id.
C19_DeletedForEver ==
    /\ (TargetId \in Ids /\ WasDeleted(TargetId)) =>
          IF resp.op = "delete" /\ resp.status = 200
          THEN Cardinality({k \in DOMAIN log[TargetId] : log[TargetId][k].op = "delete"}) = 1
          ELSE resp.status = 404
    /\ (resp.op = "list" /\ resp.status = 200) =>
          \A id \in ListedIds : ~WasDeleted(id)

\* while the deletion is the last mutation of an id, the table has no row
\* of that id, the operations on it are answered 404 and no ListSlots
\* shows it; a DeleteSlot answers 200 only for a row that was there
C19_GoneUntilCreated ==
    /\ \A id \in Ids : IsDeleted(id) => id \notin DOMAIN db
    /\ (TargetId \in Ids /\ IsDeleted(TargetId)) =>
          IF resp.op = "delete" /\ resp.status = 200
          THEN Len(log[TargetId]) >= 2
               /\ log[TargetId][Len(log[TargetId]) - 1].op # "delete"
          ELSE resp.status = 404
    /\ (resp.op = "list" /\ resp.status = 200) =>
          \A id \in ListedIds : ~IsDeleted(id)

\* the commit of a DeleteSlot removes the row of its id and no other
C19_OnlyThatSlot ==
    \A t \in Threads :
        (pc[t] = "delete_commit" /\ pc'[t] = "idle") =>
            /\ DOMAIN db' = (DOMAIN db) \ {loc[t].id}
            /\ \A j \in DOMAIN db' : db'[j] = db[j]

\* what holds of DeleteSlot on either database: in a sequential run, a
\* successful DeleteSlot on an available or a reserved slot removes the row
\* of that id and no other; until a later CreateSlot is given the id again,
\* every GetSlot, UpdateSlot, Reserve, Cancel and DeleteSlot on it is
\* answered 404 and no ListSlots shows it.
C19_DeleteRemoves == [](C19_GoneUntilCreated) /\ [][C19_OnlyThatSlot]_vars

C19_Witness ==
    /\ resp.op = "reserve" /\ resp.status = 404
    /\ TargetId \in Ids /\ IsDeleted(TargetId)
    /\ EndsWith(Moves(TargetId), <<"reserve", "delete">>)
    /\ DOMAIN db # {}

\* C20: a GetSlot, UpdateSlot, DeleteSlot, Reserve with a valid body or
\* Cancel on an id that has no slot is answered 404 at once and leaves the
\* table and the mirror as they were; no handler goes on to a commit or a
\* mirror write for an id that has no slot.
C20_NotFound ==
    [][/\ (/\ resp = NoResp /\ resp' # NoResp /\ pc' = pc
           /\ TargetOf(resp') # 0
           /\ TargetOf(resp') \notin DOMAIN db)
          => /\ resp'.status = 404
             /\ db' = db /\ mirror' = mirror /\ log' = log
       /\ \A t \in Threads :
             (pc[t] = "idle" /\ pc'[t] # "idle" /\ loc'[t].op # "create")
                 => loc'[t].id \in DOMAIN db]_vars

C20_Witness ==
    /\ resp.op = "cancel" /\ resp.status = 404
    /\ TargetId \in Ids /\ TargetId \notin DOMAIN db /\ log[TargetId] = <<>>
    /\ mirror # <<>>

\* C21: a mirror write or delete that fails changes nothing for the
\* caller: the step from the mirror write of CreateSlot, UpdateSlot, Reserve
\* and Cancel answers success with the slot as reloaded after the commit,
\* and the step from the mirror delete of DeleteSlot goes on to the commit
\* of the deletion, each leaving the table as it was, whether the mirror
\* took the write or not.
C21_MirrorFailureHidden ==
    [][\A t \in Threads :
          /\ (pc[t] = "sync" /\ StepOf(t)) =>
                /\ pc'[t] = "idle"
                /\ resp'.op = loc[t].op /\ resp'.req = loc[t].req
                /\ resp'.status = (IF loc[t].op = "create" THEN 201 ELSE 200)
                /\ resp'.body = <<to_dict(loc[t].fresh)>>
                /\ db' = db /\ log' = log
          /\ (pc[t] = "delete_mirror" /\ StepOf(t)) =>
                /\ pc'[t] = "delete_commit" /\ loc'[t] = loc[t]
                /\ db' = db /\ log' = log]_vars

\* a Reserve was answered success although its mirror write failed
C21_Witness ==
    /\ resp.op = "reserve" /\ resp.status = 200
    /\ resp.req.schedule_id \in DOMAIN mirror
    /\ mirror[resp.req.schedule_id].reserved = FALSE
    /\ db[resp.req.schedule_id].reserved = TRUE

CommitPcs == {"create_commit", "update_commit", "delete_commit",
              "reserve_commit", "cancel_commit"}

\* C22: in a sequential run, a failure of the table during CreateSlot,
\* UpdateSlot, DeleteSlot, Reserve or Cancel is answered with an error and
\* never with success, and an operation answered with an error has left
\* the table as it was before the operation.
C22_StoreFailureSurfaced ==
    [][\A t \in Threads :
          /\ (pc[t] \in CommitPcs /\ pc'[t] = "idle" /\ db' = db)
                => resp'.status = 500
          /\ (StepOf(t) /\ pc'[t] = "idle" /\ resp'.status = 500)
                => /\ pc[t] \in CommitPcs
                   /\ db' = db /\ log' = log]_vars

\* C23: the commit of an UpdateSlot, a Reserve or a Cancel sets updated_at
\* of its slot to the time the operation took, no step makes updated_at of
\* a slot smaller, and updated_at is never earlier than created_at.
C23_UpdatedAtMonotone ==
    [][/\ \A t \in Threads :
             (pc[t] \in {"update_commit", "reserve_commit", "cancel_commit"}
              /\ pc'[t] = "refresh")
                 => db'[loc[t].id].updated_at = loc[t].new.updated_at
       /\ \A id \in (DOMAIN db) \cap (DOMAIN db') :
             db'[id].updated_at >= db[id].updated_at
       /\ \A id \in DOMAIN db' : db'[id].updated_at >= db'[id].created_at]_vars

\* C24: a handler changes the mirror only after its own commit on the
\* table has succeeded: it writes the document of a slot after committing
\* the create, update, reserve or cancel of that slot, and it deletes the
\* document of a slot after committing the deletion of that slot; so an
\* operation whose commit fails has left the mirror as it was.
C24_MirrorAfterCommit ==
    [][\A t \in Threads :
          (StepOf(t) /\ mirror' # mirror) =>
              IF loc[t].op = "delete"
              THEN loc[t].id \notin DOMAIN db
              ELSE /\ pc[t] = "sync"
                   /\ log[loc[t].id] # <<>>
                   /\ Last(log[loc[t].id]).op = loc[t].op]_vars

\* C25: every operation that has started returns a result to its caller in
\* the end, also when a store does not answer.
C25_EveryOperationReturns ==
    \A t \in Threads : (pc[t] # "idle") ~> (pc[t] = "idle")

\* the error of the first check of CreateSlot that the request fails against
\* the table, None when it passes them all
FirstFailure(body) ==
    IF body = <<>> THEN "invalid_data"
    ELSE IF ParseDate(body[1].date) = <<>> THEN "invalid_date_format"
    ELSE IF ParseTime(body[1].hour) = <<>> THEN "invalid_hour_format"
    ELSE IF ~InOpeningHours(ParseTime(body[1].hour)[1]) THEN "hour_out_of_range"
    ELSE IF \E i \in DOMAIN db :
               /\ <<db[i].date>> = ParseDate(body[1].date)
               /\ <<db[i].hour>> = ParseTime(body[1].hour)
         THEN "schedule_exists"
    ELSE None

\* C26: CreateSlot checks body, date, hour format, hour range and the
\* existing slot in this order and answers the error of the first check
\* that fails (400, or 409 for the existing slot), adding no slot and
\* writing no mirror document; a request goes on to the insert only when it
\* passes every check.
C26_FirstFailure ==
    [][/\ Immediate("create") =>
             /\ resp'.error = FirstFailure(resp'.req)
             /\ resp'.status = IF resp'.error = "schedule_exists" THEN 409 ELSE 400
             /\ db' = db /\ mirror' = mirror /\ nextId' = nextId
       /\ \A t \in Threads :
             (pc[t] = "idle" /\ pc'[t] = "create_commit") =>
                 FirstFailure(loc'[t].req) = None]_vars

\* an unparsable date with an hour out of range was answered, with a slot in
\* the table and in the mirror
C26_Witness ==
    /\ resp.op = "create" /\ resp.error = "invalid_date_format"
    /\ OutOfRange(resp.req)
    /\ DOMAIN db # {} /\ DOMAIN mirror = DOMAIN db

\* a Reserve without schedule_id or reserved_by is answered 400 at once and
\* changes nothing; none goes on to the commit
C27_RejectedFirst ==
    /\ (/\ Immediate("reserve")
        /\ (resp'.req.schedule_id = 0 \/ resp'.req.reserved_by = "")) =>
           /\ resp'.status = 400 /\ resp'.error = "invalid_data"
           /\ db' = db /\ mirror' = mirror
    /\ \A t \in Threads :
           (pc[t] = "idle" /\ pc'[t] = "reserve_commit") =>
               /\ loc'[t].req.schedule_id # 0
               /\ loc'[t].req.reserved_by # ""

\* no slot of the table is reserved with an empty or missing reserved_by
C27_ReservedByNonEmpty ==
    \A i \in DOMAIN db : db[i].reserved => db[i].reserved_by \in Requesters

LastCleared(id) ==
    LET K == {k \in 1..Len(log[id]) : log[id][k].op \in {"cancel", "delete"}}
    IN  IF K = {} THEN 0 ELSE CHOOSE k \in K : \A j \in K : j <= k

\* C28: when every handler has answered, each Reserve that succeeded on a
\* slot since the last successful Cancel or DeleteSlot of that slot is the
\* stored reservation: the slot is reserved, by that caller.
C28_AcknowledgedKept ==
    (resp = NoResp /\ \A t \in Threads : pc[t] = "idle") =>
        \A id \in DOMAIN db :
            \A k \in (LastCleared(id) + 1)..Len(log[id]) :
                log[id][k].op = "reserve" =>
                    /\ db[id].reserved
                    /\ db[id].reserved_by = log[id][k].by

\* C29: when every handler has answered and no mirror write failed, the
\* mirror holds a document for exactly the slots of the table, and each
\* document equals its slot.
C29_MirrorAgrees ==
    (resp = NoResp /\ \A t \in Threads : pc[t] = "idle") =>
        /\ DOMAIN mirror = DOMAIN db
        /\ \A i \in DOMAIN db : mirror[i] = to_dict(db[i])

====
